---- MODULE Spec2Model ----
(***************************************************************************)
(* Job dispatch and execution subsystem of rust-media-pipeline:            *)
(*   python_frontend/app.py     the HTTP face (submit, get status, list)   *)
(*   python_frontend/worker.py  the bridge to the external worker binary   *)
(*                              and the RQ dispatcher loop                 *)
(* The durable queue is RQ on Redis: a job hash per id and a list of the   *)
(* ids that wait to be claimed.                                            *)
(***************************************************************************)
EXTENDS Integers, Sequences, FiniteSets, TLC

(***************************************************************************)
(* Bounds of the model.                                                    *)
(***************************************************************************)
MaxJobs == 2
NumDispatchers == 2

Dispatchers == 1..NumDispatchers

(***************************************************************************)
(* Python / JSON values, tagged so that values of different types compare. *)
(***************************************************************************)
PyNone == [t |-> "None"]
PyStr(s) == [t |-> "str", s |-> s]
PyBool(b) == [t |-> "bool", b |-> b]
PyInt(n) == [t |-> "int", n |-> n]
PyList(items) == [t |-> "list", items |-> items]
PyDict(d) == [t |-> "dict", d |-> d]
DateTime(n) == [t |-> "datetime", at |-> n]

EmptyDict == PyDict(<< >>)

\* datetime.isoformat(): the timestamp rendered as text
isoformat(dt) == [t |-> "isotext", of |-> dt.at]

\* `x.isoformat() if x else None` (app.py:38-39, 55-58)
IsoOrNone(x) == IF x # PyNone THEN isoformat(x) ELSE PyNone

(***************************************************************************)
(* Configuration (config/settings.toml) and the worker binary path.       *)
(***************************************************************************)
timeout_seconds == 5
RUST_WORKER_PATH == "rust_worker/target/release/rust_worker"

(***************************************************************************)
(* Text written by the worker process, and json.loads on it.  Texts are    *)
(* strings; json.loads is the parser restricted to the texts the model     *)
(* lets a worker write.                                                    *)
(***************************************************************************)
Stdouts == { "{\"success\":true,\"hash\":\"abc\"}",
             "{\"success\":false}",
             "null",
             "{\"message\":\"bad input\"}",
             "not json" }

Stderrs == { "warn" }

JSONDecodeError == [t |-> "JSONDecodeError"]

json_loads(text) ==
    CASE text = "{\"success\":true,\"hash\":\"abc\"}" ->
            PyDict([success |-> PyBool(TRUE), hash |-> PyStr("abc")])
      [] text = "{\"success\":false}" -> PyDict([success |-> PyBool(FALSE)])
      [] text = "null" -> PyNone
      [] text = "{\"message\":\"bad input\"}" -> PyDict([message |-> PyStr("bad input")])
      [] text = "{}" -> EmptyDict
      [] text = "[1]" -> PyList(<<PyInt(1)>>)
      [] OTHER -> JSONDecodeError

\* str(x) inside an f-string, as a sequence of text fragments
format(v) ==
    CASE v.t = "str" -> <<v.s>>
      [] v.t = "None" -> <<"None">>
      [] v.t = "bool" -> IF v.b THEN <<"True">> ELSE <<"False">>
      [] v.t = "int" -> <<ToString(v.n)>>
      [] OTHER -> <<"repr of ", v.t>>

\* dict.get(key, default)
DictGet(v, key, default) == IF key \in DOMAIN v.d THEN v.d[key] ELSE default

(***************************************************************************)
(* json.dumps of the job payload (worker.py:25): the keys in insertion     *)
(* order, each with its encoded value.                                     *)
(***************************************************************************)
PayloadKeys == <<"task", "input_path", "output_path", "params">>

RECURSIVE json_dumps(_)
RECURSIVE DumpItems(_, _)
DumpItems(v, keys) ==
    IF keys = << >> THEN << >>
    ELSE LET k == Head(keys)
         IN (IF k \in DOMAIN v.d THEN <<k, ":">> \o json_dumps(v.d[k]) \o <<",">>
             ELSE << >>) \o DumpItems(v, Tail(keys))

json_dumps(v) ==
    CASE v.t = "str" -> <<"\"", v.s, "\"">>
      [] v.t = "None" -> <<"null">>
      [] v.t = "bool" -> IF v.b THEN <<"true">> ELSE <<"false">>
      [] v.t = "dict" ->
            <<"{">> \o DumpItems(v, PayloadKeys \o <<"preset", "mode">>) \o <<"}">>
      [] OTHER -> <<"?">>

(***************************************************************************)
(* What the operating system does with one call of the bridge: whether the *)
(* binary exists, whether the spawn succeeds, and how the process ends.    *)
(***************************************************************************)
Hang == "hang"

WorkerEnvs ==
    { [exists |-> FALSE, spawn |-> "none", exit |-> "none", stdout |-> "", stderr |-> ""],
      [exists |-> TRUE, spawn |-> "oserror", exit |-> "none", stdout |-> "", stderr |-> ""],
      [exists |-> TRUE, spawn |-> "ok", exit |-> Hang, stdout |-> "", stderr |-> ""] }
    \cup
    { [exists |-> TRUE, spawn |-> "ok", exit |-> c, stdout |-> o, stderr |-> e] :
        c \in {"0", "1"}, o \in Stdouts, e \in Stderrs }

Exc(type, msg) == [t |-> "exception", type |-> type, msg |-> msg]

\* a run through a shell: the shell is spawned whatever becomes of the binary
subprocess_run_shell(argv, env) ==
    IF ~env.exists \/ env.spawn = "oserror"
    THEN [kind |-> "return",
          value |-> [returncode |-> "1", stdout |-> "", stderr |-> "sh: cannot execute"],
          spawned |-> 1, argv |-> argv, clock |-> TRUE, killed |-> FALSE]
    ELSE IF env.exit = Hang
    THEN [kind |-> "raise",
          value |-> Exc("TimeoutExpired",
                        <<"Command timed out after ", ToString(timeout_seconds), " seconds">>),
          spawned |-> 1, argv |-> argv, clock |-> TRUE, killed |-> TRUE]
    ELSE [kind |-> "return",
          value |-> [returncode |-> env.exit, stdout |-> env.stdout, stderr |-> env.stderr],
          spawned |-> 1, argv |-> argv, clock |-> TRUE, killed |-> FALSE]

\* subprocess.run([path, job_json], capture_output, text, timeout, check=False)
\* (worker.py:28-34): Popen first, then communicate(timeout) starts the clock;
\* on expiry the child is killed and TimeoutExpired is raised.
subprocess_run(argv, env) ==
    IF ~env.exists
    THEN [kind |-> "raise", value |-> Exc("OSError", <<"[Errno 2] No such file or directory">>),
          spawned |-> 0, argv |-> << >>, clock |-> FALSE, killed |-> FALSE]
    ELSE IF env.spawn = "oserror"
    THEN [kind |-> "raise", value |-> Exc("OSError", <<"[Errno 13] Permission denied">>),
          spawned |-> 0, argv |-> << >>, clock |-> FALSE, killed |-> FALSE]
    ELSE IF env.exit = Hang
    THEN [kind |-> "raise",
          value |-> Exc("TimeoutExpired",
                        <<"Command timed out after ", ToString(timeout_seconds), " seconds">>),
          spawned |-> 1, argv |-> argv, clock |-> TRUE, killed |-> TRUE]
    ELSE [kind |-> "return",
          value |-> [returncode |-> env.exit, stdout |-> env.stdout, stderr |-> env.stderr],
          spawned |-> 1, argv |-> argv, clock |-> TRUE, killed |-> FALSE]

\* a body that reads the success flag of a 0-exit response
HandleCompleted_checksSuccess(result) ==
    LET parsed == json_loads(result.stdout)
    IN
    IF result.returncode = "0" /\ parsed # JSONDecodeError
    THEN IF parsed.t = "dict" /\ DictGet(parsed, "success", PyBool(TRUE)) = PyBool(FALSE)
         THEN [kind |-> "raise",
               value |-> Exc("RuntimeError", <<"Rust worker failed: ", "Unknown error">>)]
         ELSE [kind |-> "return", value |-> parsed]
    ELSE [kind |-> "raise",
          value |-> Exc("RuntimeError",
                        <<"Rust worker failed with exit code ", result.returncode,
                          "\nstdout: ", result.stdout, "\nstderr: ", result.stderr>>)]

\* a body whose fallback envelope keeps the standard output only
HandleCompleted_dropsStderr(result) ==
    LET parsed == json_loads(result.stdout)
    IN
    IF result.returncode = "0"
    THEN IF parsed # JSONDecodeError
         THEN [kind |-> "return", value |-> parsed]
         ELSE [kind |-> "return",
               value |-> PyDict([success |-> PyBool(TRUE),
                                 message |-> PyStr("Job completed"),
                                 output |-> PyStr(result.stdout),
                                 stderr |-> PyStr("")])]
    ELSE IF parsed # JSONDecodeError
         THEN IF parsed.t = "dict"
              THEN [kind |-> "raise",
                    value |-> Exc("RuntimeError",
                                  <<"Rust worker failed: ">>
                                  \o format(DictGet(parsed, "message", PyStr("Unknown error"))))]
              ELSE [kind |-> "raise",
                    value |-> Exc("AttributeError",
                                  <<"'", parsed.t, "' object has no attribute 'get'">>)]
         ELSE [kind |-> "raise",
               value |-> Exc("RuntimeError",
                             <<"Rust worker failed with exit code ", result.returncode,
                               "\nstdout: ", result.stdout, "\nstderr: ", result.stderr>>)]

\* the body of the try block after subprocess.run returned (worker.py:36-56)
HandleCompleted(result) ==
    LET parsed == json_loads(result.stdout)
    IN
    IF result.returncode = "0"
    THEN IF parsed # JSONDecodeError
         THEN [kind |-> "return", value |-> parsed]
         ELSE [kind |-> "return",
               value |-> PyDict([success |-> PyBool(TRUE),
                                 message |-> PyStr("Job completed"),
                                 output |-> PyStr(result.stdout),
                                 stderr |-> PyStr(result.stderr)])]
    ELSE IF parsed # JSONDecodeError
         THEN IF parsed.t = "dict"
              THEN [kind |-> "raise",
                    value |-> Exc("RuntimeError",
                                  <<"Rust worker failed: ">>
                                  \o format(DictGet(parsed, "message", PyStr("Unknown error"))))]
              ELSE [kind |-> "raise",
                    value |-> Exc("AttributeError",
                                  <<"'", parsed.t, "' object has no attribute 'get'">>)]
         ELSE [kind |-> "raise",
               value |-> Exc("RuntimeError",
                             <<"Rust worker failed with exit code ", result.returncode,
                               "\nstdout: ", result.stdout, "\nstderr: ", result.stderr>>)]

\* handlers that let the RuntimeErrors of the body pass unchanged
ExceptHandlers_reraise(e) ==
    IF e.type = "TimeoutExpired"
    THEN Exc("RuntimeError",
             <<"Job timed out after ", ToString(timeout_seconds), " seconds">>)
    ELSE IF e.type = "RuntimeError" THEN e
    ELSE Exc("RuntimeError", <<"Failed to execute Rust worker: ">> \o e.msg)

\* handlers without the TimeoutExpired clause
ExceptHandlers_noTimeout(e) ==
    Exc("RuntimeError", <<"Failed to execute Rust worker: ">> \o e.msg)

\* the two handlers of the try block (worker.py:58-63): TimeoutExpired first,
\* then every other Exception, the RuntimeErrors of lines 50 and 52 included
ExceptHandlers(e) ==
    IF e.type = "TimeoutExpired"
    THEN Exc("RuntimeError",
             <<"Job timed out after ", ToString(timeout_seconds), " seconds">>)
    ELSE Exc("RuntimeError", <<"Failed to execute Rust worker: ">> \o e.msg)

\* a bridge that starts the worker without arguments, the document being
\* meant for its standard input
execute_rust_worker_stdin(job_payload, env) ==
    IF ~env.exists
    THEN [kind |-> "raise",
          value |-> Exc("FileNotFoundError",
                        <<"Rust worker binary not found at ", RUST_WORKER_PATH>>),
          spawned |-> 0, argv |-> << >>, clock |-> FALSE, killed |-> FALSE]
    ELSE LET job_json == json_dumps(job_payload)
             run == subprocess_run(<<RUST_WORKER_PATH>>, env)
             body == IF run.kind = "return" THEN HandleCompleted(run.value)
                     ELSE [kind |-> "raise", value |-> run.value]
         IN [kind |-> body.kind,
             value |-> IF body.kind = "raise" THEN ExceptHandlers(body.value)
                       ELSE body.value,
             spawned |-> run.spawned, argv |-> run.argv,
             clock |-> run.clock, killed |-> run.killed]

\* execute_rust_worker (worker.py:13-63): the outcome of one call (kind,
\* value) with what happened to the process: how many were spawned, with
\* which argv, whether the timeout clock ran, whether the process was killed
execute_rust_worker(job_payload, env) ==
    IF ~env.exists
    THEN [kind |-> "raise",
          value |-> Exc("FileNotFoundError",
                        <<"Rust worker binary not found at ", RUST_WORKER_PATH>>),
          spawned |-> 0, argv |-> << >>, clock |-> FALSE, killed |-> FALSE]
    ELSE LET job_json == json_dumps(job_payload)
             run == subprocess_run(<<RUST_WORKER_PATH, job_json>>, env)
             body == IF run.kind = "return" THEN HandleCompleted(run.value)
                     ELSE [kind |-> "raise", value |-> run.value]
         IN [kind |-> body.kind,
             value |-> IF body.kind = "raise" THEN ExceptHandlers(body.value)
                       ELSE body.value,
             spawned |-> run.spawned, argv |-> run.argv,
             clock |-> run.clock, killed |-> run.killed]

(***************************************************************************)
(* State.                                                                  *)
(***************************************************************************)
VARIABLES
    jobs,        \* Redis job hashes: job id -> job record
    queue,       \* Redis list of the ids waiting in the queue
    uuids,       \* how many uuid4 values have been drawn
    now,         \* the wall clock
    dispatcher,  \* per RQ worker process: [pc, job]
    request,     \* the POST /api/enqueue in flight: [pc, job_id, data, payload]
    response,    \* the HTTP response sent by this step, if any
    issued,      \* history: the job ids returned by Submit, in order
    claimed,     \* history: job id -> the dispatchers that claimed it, in order
    executed     \* history: job id -> what the bridge call did

vars == <<jobs, queue, uuids, now, dispatcher, request, response,
          issued, claimed, executed>>

NoJob == 0
NoResponse == [route |-> "none"]
NoRequest == [pc |-> "none", job_id |-> NoJob, data |-> PyNone, payload |-> PyNone]

Statuses == {"queued", "started", "finished", "failed"}

Tasks == {"no_such_task"}
RequiredFields == {"task", "input_path", "output_path"}

\* the JSON bodies a client posts to /api/enqueue: no body, an empty
\* object, or an object with any subset of the four fields
FieldValue(k, task) ==
    CASE k = "task" -> PyStr(task)
      [] k = "input_path" -> PyStr("/data/input/a.mp4")
      [] k = "output_path" -> PyStr("/data/output/a.mp4")
      [] k = "params" -> PyDict([preset |-> PyStr("fast")])

AllFields == RequiredFields \cup {"params"}

Bodies ==
    {PyNone} \cup
    { PyDict([k \in ks |-> FieldValue(k, task)]) :
        ks \in {{}, {"params"}, AllFields} \cup { AllFields \ {k} : k \in AllFields },
        task \in Tasks }

\* Python truthiness of a parsed body (app.py:96)
Truthy(v) ==
    CASE v.t = "None" -> FALSE
      [] v.t = "dict" -> DOMAIN v.d # {}
      [] OTHER -> TRUE

\* an id source that repeats itself
uuid4_repeat(n) == 1

\* uuid4(): a value never drawn before
uuid4(n) == n + 1

Init ==
    /\ jobs = << >>
    /\ queue = << >>
    /\ uuids = 0
    /\ now = 1
    /\ dispatcher = [d \in Dispatchers |-> [pc |-> "idle", job |-> NoJob]]
    /\ request = NoRequest
    /\ response = NoResponse
    /\ issued = << >>
    /\ claimed = << >>
    /\ executed = << >>

(***************************************************************************)
(* app.py: POST /api/enqueue                                               *)
(***************************************************************************)
\* a validation that also insists on params
MissingField_paramsRequired(data) ==
    IF "task" \notin DOMAIN data.d THEN "task"
    ELSE IF "input_path" \notin DOMAIN data.d THEN "input_path"
    ELSE IF "output_path" \notin DOMAIN data.d THEN "output_path"
    ELSE IF "params" \notin DOMAIN data.d THEN "params"
    ELSE "none"

\* the first missing required field, in the order of the list (app.py:99-102)
MissingField(data) ==
    IF "task" \notin DOMAIN data.d THEN "task"
    ELSE IF "input_path" \notin DOMAIN data.d THEN "input_path"
    ELSE IF "output_path" \notin DOMAIN data.d THEN "output_path"
    ELSE "none"

\* a payload built with data.get("params"), without the default
JobPayload_noDefault(data) ==
    PyDict([k \in RequiredFields \cup {"params"} |->
              IF k = "params" THEN DictGet(data, "params", PyNone) ELSE data.d[k]])

\* job_payload (app.py:104-109)
JobPayload(data) ==
    PyDict([k \in RequiredFields \cup {"params"} |->
              IF k = "params" THEN DictGet(data, "params", EmptyDict) ELSE data.d[k]])

\* queue.enqueue (app.py:113-117): RQ creates the job hash under a fresh
\* uuid4 id with status queued and pushes the id on the queue list
NewJob(id, payload, t) ==
    [id |-> id, status |-> "queued", args |-> payload,
     created_at |-> DateTime(t), enqueued_at |-> DateTime(t + 1),
     started_at |-> PyNone, ended_at |-> PyNone,
     result |-> PyNone, exc_info |-> PyNone]

\* validation failures (app.py:94-102): a 400 response and nothing else
EnqueueJobRejected(data) ==
    /\ request.pc = "none"
    /\ \/ ~Truthy(data)
       \/ Truthy(data) /\ MissingField(data) # "none"
    /\ response' = [route |-> "enqueue", code |-> 400, data |-> data,
                    body |-> IF ~Truthy(data)
                             THEN PyDict([error |-> PyStr("No JSON data provided")])
                             ELSE PyDict([error |-> PyStr("Missing required field"),
                                          field |-> PyStr(MissingField(data))])]
    /\ UNCHANGED <<jobs, queue, uuids, now, dispatcher, request,
                   issued, claimed, executed>>

\* a valid body: build the payload and enqueue (app.py:104-117)
EnqueueJob(data) ==
    /\ request.pc = "none"
    /\ uuids < MaxJobs
    /\ Truthy(data)
    /\ MissingField(data) = "none"
    /\ LET id == uuid4(uuids)
           payload == JobPayload(data)
       IN /\ jobs' = (id :> NewJob(id, payload, now)) @@ jobs
          /\ queue' = Append(queue, id)
          /\ request' = [pc |-> "enqueued", job_id |-> id, data |-> data,
                          payload |-> payload]
    /\ uuids' = uuids + 1
    /\ now' = now + 2
    /\ response' = NoResponse
    /\ UNCHANGED <<dispatcher, issued, claimed, executed>>

\* job.get_status() re-reads the status from Redis, then the response is
\* built (app.py:119-123)
EnqueueJobRespond ==
    /\ request.pc = "enqueued"
    /\ response' = [route |-> "enqueue", code |-> 200, data |-> request.data,
                    body |-> PyDict([job_id |-> request.job_id,
                                     status |-> jobs[request.job_id].status,
                                     payload |-> request.payload])]
    /\ issued' = Append(issued, request.job_id)
    /\ request' = NoRequest
    /\ UNCHANGED <<jobs, queue, uuids, now, dispatcher, claimed, executed>>

(***************************************************************************)
(* app.py: GET /api/jobs/<job_id> and GET /api/jobs                        *)
(***************************************************************************)
\* the payload of get_job for a job record (app.py:52-61)
JobView(job) ==
    PyDict([id |-> job.id,
            status |-> job.status,
            created_at |-> IsoOrNone(job.created_at),
            enqueued_at |-> IsoOrNone(job.enqueued_at),
            started_at |-> IsoOrNone(job.started_at),
            ended_at |-> IsoOrNone(job.ended_at),
            result |-> job.result,
            exc_info |-> job.exc_info])

\* the projection of list_jobs for a job record (app.py:35-40)
JobProjection(job) ==
    PyDict([id |-> job.id,
            status |-> job.status,
            created_at |-> IsoOrNone(job.created_at),
            enqueued_at |-> IsoOrNone(job.enqueued_at)])

\* a get_job that hands the result out once and clears it
GetJob_consuming(job_id) ==
    /\ job_id \in DOMAIN jobs
    /\ response' = [route |-> "get", code |-> 200, id |-> job_id,
                    body |-> JobView(jobs[job_id])]
    /\ jobs' = [jobs EXCEPT ![job_id].result = PyNone]
    /\ UNCHANGED <<queue, uuids, now, dispatcher, request,
                   issued, claimed, executed>>

\* a get_job that looks the job up among the queued jobs only
GetJob_queueOnly(job_id) ==
    /\ response' = IF \E i \in 1..Len(queue) : queue[i] = job_id
                   THEN [route |-> "get", code |-> 200, id |-> job_id,
                         body |-> JobView(jobs[job_id])]
                   ELSE [route |-> "get", code |-> 404, id |-> job_id,
                         body |-> PyDict([error |-> PyStr("No such job")])]
    /\ UNCHANGED <<jobs, queue, uuids, now, dispatcher, request,
                   issued, claimed, executed>>

\* get_job: Job.fetch raises for an unknown id, which becomes a 404
GetJob(job_id) ==
    /\ response' = IF job_id \in DOMAIN jobs
                   THEN [route |-> "get", code |-> 200, id |-> job_id,
                         body |-> JobView(jobs[job_id])]
                   ELSE [route |-> "get", code |-> 404, id |-> job_id,
                         body |-> PyDict([error |-> PyStr("No such job")])]
    /\ UNCHANGED <<jobs, queue, uuids, now, dispatcher, request,
                   issued, claimed, executed>>

\* list_jobs: queue.jobs are the jobs whose ids are on the queue list
ListJobs ==
    /\ response' = [route |-> "list", code |-> 200,
                    body |-> PyList([i \in 1..Len(queue) |-> JobProjection(jobs[queue[i]])])]
    /\ UNCHANGED <<jobs, queue, uuids, now, dispatcher, request,
                   issued, claimed, executed>>

(***************************************************************************)
(* worker.py __main__: the RQ worker loop, worker.work()                   *)
(***************************************************************************)
\* a worker that reads the next id and leaves it on the queue list
Claim_peek(d) ==
    /\ dispatcher[d].pc = "idle"
    /\ queue # << >>
    /\ LET id == Head(queue)
       IN /\ jobs' = [jobs EXCEPT ![id].status = "started",
                                  ![id].started_at = DateTime(now)]
          /\ dispatcher' = [dispatcher EXCEPT ![d] = [pc |-> "busy", job |-> id]]
          /\ claimed' = IF id \in DOMAIN claimed
                        THEN [claimed EXCEPT ![id] = Append(@, d)]
                        ELSE (id :> <<d>>) @@ claimed
    /\ queue' = queue
    /\ now' = now + 1
    /\ response' = NoResponse
    /\ UNCHANGED <<uuids, request, issued, executed>>

\* the worker pops the next id off the queue and marks the job started
Claim(d) ==
    /\ dispatcher[d].pc = "idle"
    /\ queue # << >>
    /\ LET id == Head(queue)
       IN /\ jobs' = [jobs EXCEPT ![id].status = "started",
                                  ![id].started_at = DateTime(now)]
          /\ dispatcher' = [dispatcher EXCEPT ![d] = [pc |-> "busy", job |-> id]]
          /\ claimed' = IF id \in DOMAIN claimed
                        THEN [claimed EXCEPT ![id] = Append(@, d)]
                        ELSE (id :> <<d>>) @@ claimed
    /\ queue' = Tail(queue)
    /\ now' = now + 1
    /\ response' = NoResponse
    /\ UNCHANGED <<uuids, request, issued, executed>>

\* a terminal write that puts a failed job back in line
Outcome_retry(job, out, t) ==
    IF out.kind = "return"
    THEN [job EXCEPT !.status = "finished", !.ended_at = DateTime(t),
                     !.result = out.value]
    ELSE [job EXCEPT !.status = "queued", !.exc_info = out.value]

\* a terminal write that records results only and lets a failure pass
Outcome_dropsFailure(job, out, t) ==
    IF out.kind = "return"
    THEN [job EXCEPT !.status = "finished", !.ended_at = DateTime(t),
                     !.result = out.value]
    ELSE job

\* a terminal write that stamps the end time of successful jobs only
Outcome_noEndOnFailure(job, out, t) ==
    IF out.kind = "return"
    THEN [job EXCEPT !.status = "finished", !.ended_at = DateTime(t),
                     !.result = out.value]
    ELSE [job EXCEPT !.status = "failed", !.exc_info = out.value]

\* the terminal write for the outcome of the job function: a return value
\* becomes the result of a finished job, an exception the exc_info of a
\* failed one
Outcome(job, out, t) ==
    IF out.kind = "return"
    THEN [job EXCEPT !.status = "finished", !.ended_at = DateTime(t),
                     !.result = out.value]
    ELSE [job EXCEPT !.status = "failed", !.ended_at = DateTime(t),
                     !.exc_info = out.value]

\* a loop that records the failure and then lets the exception end the worker
Execute_raiseEscapes(d, env) ==
    /\ dispatcher[d].pc = "busy"
    /\ LET id == dispatcher[d].job
           out == execute_rust_worker(jobs[id].args, env)
       IN /\ jobs' = [jobs EXCEPT ![id] = Outcome(@, out, now)]
          /\ executed' = (id :> [env |-> env, out |-> out, by |-> d]) @@ executed
          /\ dispatcher' = [dispatcher EXCEPT ![d] =
                                IF out.kind = "raise" THEN [pc |-> "dead", job |-> NoJob]
                                ELSE [pc |-> "idle", job |-> NoJob]]
    /\ now' = now + 1
    /\ response' = NoResponse
    /\ UNCHANGED <<queue, uuids, request, issued, claimed>>

\* a loop that records the failure and puts the job back on the queue
Execute_requeueFailed(d, env) ==
    /\ dispatcher[d].pc = "busy"
    /\ LET id == dispatcher[d].job
           out == execute_rust_worker(jobs[id].args, env)
       IN /\ jobs' = [jobs EXCEPT ![id] = Outcome(@, out, now)]
          /\ executed' = (id :> [env |-> env, out |-> out, by |-> d]) @@ executed
          /\ queue' = IF out.kind = "raise" THEN Append(queue, id) ELSE queue
    /\ dispatcher' = [dispatcher EXCEPT ![d] = [pc |-> "idle", job |-> NoJob]]
    /\ now' = now + 1
    /\ response' = NoResponse
    /\ UNCHANGED <<uuids, request, issued, claimed>>

\* the worker calls execute_rust_worker(job_payload) and records the
\* outcome; an exception of the job never leaves the loop
Execute(d, env) ==
    /\ dispatcher[d].pc = "busy"
    /\ LET id == dispatcher[d].job
           out == execute_rust_worker(jobs[id].args, env)
       IN /\ jobs' = [jobs EXCEPT ![id] = Outcome(@, out, now)]
          /\ executed' = (id :> [env |-> env, out |-> out, by |-> d]) @@ executed
    /\ dispatcher' = [dispatcher EXCEPT ![d] = [pc |-> "idle", job |-> NoJob]]
    /\ now' = now + 1
    /\ response' = NoResponse
    /\ UNCHANGED <<queue, uuids, request, issued, claimed>>

\* the worker process is killed from outside while it runs a job (a kill
\* between jobs writes nothing and leaves the other workers to serve the queue)
Crash(d) ==
    /\ dispatcher[d].pc = "busy"
    /\ dispatcher' = [dispatcher EXCEPT ![d].pc = "dead"]
    /\ response' = NoResponse
    /\ UNCHANGED <<jobs, queue, uuids, now, request,
                   issued, claimed, executed>>

JobIds == 1..(MaxJobs + 1)

Next ==
    \/ \E data \in Bodies : EnqueueJobRejected(data)
    \/ \E data \in Bodies : EnqueueJob(data)
    \/ EnqueueJobRespond
    \/ \E job_id \in JobIds : GetJob(job_id)
    \/ ListJobs
    \/ \E d \in Dispatchers : Claim(d)
    \/ \E d \in Dispatchers, env \in WorkerEnvs : Execute(d, env)
    \/ \E d \in Dispatchers : Crash(d)

Spec == Init /\ [][Next]_vars

\* worker.work() keeps dequeuing while the queue has work, and a bridge call
\* ends: the worker process exits or the timeout cuts it off
Fairness ==
    \A d \in Dispatchers :
        /\ WF_vars(Claim(d))
        /\ WF_vars(\E env \in WorkerEnvs : Execute(d, env))

\* the steps that write: the reads and the rejected submissions change
\* nothing a dispatcher looks at
WriteNext ==
    \/ \E data \in Bodies : EnqueueJob(data)
    \/ EnqueueJobRespond
    \/ \E d \in Dispatchers : Claim(d)
    \/ \E d \in Dispatchers, env \in WorkerEnvs : Execute(d, env)
    \/ \E d \in Dispatchers : Crash(d)

FairSpec == Init /\ [][WriteNext]_vars /\ Fairness

(***************************************************************************)
(* Properties.                                                             *)
(***************************************************************************)
Terminal == {"finished", "failed"}

\* a body the claims call invalid: no body, or one of the three required
\* fields is absent
Invalid(data) == data = PyNone \/ ~(RequiredFields \subseteq DOMAIN data.d)

SubmitOk == response.route = "enqueue" /\ response.code = 200
GetOk == response.route = "get" /\ response.code = 200

\* C1: no job id is returned by two submissions: the ids returned so far are
\* pairwise different, and each names a record of the store.
C1_IdsNeverReissued ==
    /\ \A i, j \in 1..Len(issued) : i # j => issued[i] # issued[j]
    /\ \A i \in 1..Len(issued) : issued[i] \in DOMAIN jobs /\ jobs[issued[i]].id = issued[i]
    /\ Cardinality(DOMAIN jobs) = uuids

C1_Witness ==
    /\ Len(issued) >= 2
    /\ \E id \in DOMAIN jobs : jobs[id].status \in Terminal
    /\ GetOk

\* C2 as stated: every Submit response, and the Get-status read that follows
\* it, shows status queued, whatever the dispatchers do meanwhile.
C2_AlwaysQueued ==
    /\ [](SubmitOk => response.body.d.status = "queued")
    /\ [][(SubmitOk /\ response'.route = "get"
                     /\ response'.id = response.body.d.job_id)
            => response'.body.d.status = "queued"]_vars

\* C2 amended: a Submit response echoes the submitted task, input_path,
\* output_path and params and carries the status the job has when the
\* response is built; that status, and the status a Get-status read returns,
\* is queued as long as no dispatcher has claimed the job.
C2_QueuedUnlessClaimed ==
    /\ SubmitOk =>
          LET b == response.body.d
          IN /\ b.job_id \in DOMAIN jobs
             /\ DOMAIN b.payload.d = AllFields
             /\ \A k \in RequiredFields : b.payload.d[k] = response.data.d[k]
             /\ b.payload.d["params"] =
                    (IF "params" \in DOMAIN response.data.d
                     THEN response.data.d["params"] ELSE EmptyDict)
             /\ b.status = jobs[b.job_id].status
             /\ (b.job_id \notin DOMAIN claimed => b.status = "queued")
    /\ GetOk => (response.id \notin DOMAIN claimed => response.body.d.status = "queued")

C2_Witness ==
    /\ SubmitOk
    /\ response.body.d.status = "queued"
    /\ "params" \notin DOMAIN response.data.d
    /\ \E d \in Dispatchers : dispatcher[d].pc = "busy"

\* C3: a Submit without body or without one of task, input_path, output_path
\* is answered with a validation failure that carries no job id and changes
\* neither a job record nor the queue; a body that has the three fields is
\* accepted, and any new job comes from such a body, with params defaulting
\* to the empty mapping.
C3_ValidationBeforeCreation ==
    [][ /\ (response'.route = "enqueue" /\ Invalid(response'.data)) =>
              /\ response'.code = 400
              /\ "job_id" \notin DOMAIN response'.body.d
              /\ jobs' = jobs /\ queue' = queue /\ uuids' = uuids /\ issued' = issued
        /\ (response'.route = "enqueue" /\ ~Invalid(response'.data)) =>
              response'.code = 200
        /\ (DOMAIN jobs' # DOMAIN jobs) =>
              /\ request'.pc = "enqueued"
              /\ ~Invalid(request'.data)
              /\ DOMAIN jobs' = DOMAIN jobs \cup {request'.job_id}
              /\ \A id \in DOMAIN jobs : jobs'[id] = jobs[id]
              /\ ("params" \notin DOMAIN request'.data.d =>
                     jobs'[request'.job_id].args.d["params"] = EmptyDict)
      ]_vars

C3_Witness ==
    /\ response.route = "enqueue"
    /\ response.code = 400
    /\ response.data # PyNone
    /\ DOMAIN response.data.d = AllFields \ {"output_path"}
    /\ \E id \in DOMAIN jobs : jobs[id].args.d["params"] = EmptyDict

(***************************************************************************)
(* What the worker did for an executed job, and how the recorded error     *)
(* reads.                                                                  *)
(***************************************************************************)
Ran(e) == e.exists /\ e.spawn = "ok"
ExitedWith(e, code) == Ran(e) /\ e.exit = code
Hung(e) == Ran(e) /\ e.exit = Hang
Unavailable(e) == ~e.exists \/ e.spawn = "oserror"
Parses(text) == json_loads(text) # JSONDecodeError
HasMessage(text) ==
    /\ Parses(text)
    /\ json_loads(text).t = "dict"
    /\ "message" \in DOMAIN json_loads(text).d

ErrorKind(x) ==
    IF x.type = "FileNotFoundError" THEN "ExecutorUnavailable"
    ELSE IF Head(x.msg) = "Job timed out after " THEN "TimedOut"
    ELSE IF Len(x.msg) >= 2 /\ x.msg[2] \in {"Rust worker failed: ",
                                             "Rust worker failed with exit code "}
         THEN "ExecutionFailed"
    ELSE IF Len(x.msg) >= 2 /\ x.msg[2] = "[Errno 13] Permission denied"
         THEN "ExecutorUnavailable"
    ELSE "Other"

\* C4: a worker that exits 0 with standard output that parses as JSON gives
\* a finished job whose result is the parsed value, whatever the value says;
\* no job whose worker exited 0 is failed.
C4_ExitZeroJsonIsResult ==
    \A id \in DOMAIN executed :
        LET e == executed[id].env
        IN /\ (ExitedWith(e, "0") /\ Parses(e.stdout)) =>
                 /\ jobs[id].status = "finished"
                 /\ jobs[id].result = json_loads(e.stdout)
                 /\ jobs[id].exc_info = PyNone
           /\ ExitedWith(e, "0") => jobs[id].status = "finished"

C4_Witness ==
    \E id \in DOMAIN executed :
        /\ ExitedWith(executed[id].env, "0")
        /\ executed[id].env.stdout = "{\"success\":false}"
        /\ jobs[id].status = "finished"
        /\ jobs[id].result = PyDict([success |-> PyBool(FALSE)])

\* C5 as stated: a non-zero exit with a JSON message field gives a failed
\* job whose error message is exactly the text of that field; with output
\* that does not parse the message is made of exit code, stdout and stderr.
C5_MessageVerbatim ==
    \A id \in DOMAIN executed :
        LET e == executed[id].env
        IN /\ (ExitedWith(e, "1") /\ HasMessage(e.stdout)) =>
                 /\ jobs[id].status = "failed"
                 /\ jobs[id].exc_info.msg = format(json_loads(e.stdout).d["message"])
           /\ (ExitedWith(e, "1") /\ ~Parses(e.stdout)) =>
                 /\ jobs[id].status = "failed"
                 /\ \A part \in {e.exit, e.stdout, e.stderr} :
                        \E i \in 1..Len(jobs[id].exc_info.msg) :
                            jobs[id].exc_info.msg[i] = part

\* C5 amended: the error message ends with the text of the message field,
\* after the prefixes "Failed to execute Rust worker: " and "Rust worker
\* failed: "; with output that does not parse it is the first prefix followed
\* by the text made of exit code, stdout and stderr.
C5_MessagePrefixed ==
    \A id \in DOMAIN executed :
        LET e == executed[id].env
        IN /\ (ExitedWith(e, "1") /\ HasMessage(e.stdout)) =>
                 /\ jobs[id].status = "failed"
                 /\ jobs[id].result = PyNone
                 /\ jobs[id].exc_info.type = "RuntimeError"
                 /\ jobs[id].exc_info.msg =
                        <<"Failed to execute Rust worker: ", "Rust worker failed: ">>
                        \o format(json_loads(e.stdout).d["message"])
           /\ (ExitedWith(e, "1") /\ ~Parses(e.stdout)) =>
                 /\ jobs[id].status = "failed"
                 /\ jobs[id].result = PyNone
                 /\ jobs[id].exc_info.type = "RuntimeError"
                 /\ jobs[id].exc_info.msg =
                        <<"Failed to execute Rust worker: ",
                          "Rust worker failed with exit code ", e.exit,
                          "\nstdout: ", e.stdout, "\nstderr: ", e.stderr>>

C5_Witness ==
    \E id \in DOMAIN executed :
        /\ ExitedWith(executed[id].env, "1")
        /\ executed[id].env.stdout = "{\"message\":\"bad input\"}"
        /\ jobs[id].status = "failed"
        /\ jobs[id].exc_info.msg[Len(jobs[id].exc_info.msg)] = "bad input"

C8_StatusOnlyForward ==
    [][ /\ DOMAIN jobs \subseteq DOMAIN jobs'
        /\ \A id \in DOMAIN jobs' :
              IF id \notin DOMAIN jobs
              THEN jobs'[id].status = "queued"
              ELSE \/ jobs'[id].status = jobs[id].status
                   \/ jobs[id].status = "queued" /\ jobs'[id].status = "started"
                   \/ jobs[id].status = "started" /\ jobs'[id].status \in Terminal
        /\ (response'.route = "get" /\ response'.code = 200) =>
              response'.body.d.status = jobs'[response'.id].status
      ]_vars

C8_Witness ==
    /\ GetOk
    /\ response.body.d.status = "failed"
    /\ \E id \in DOMAIN jobs : jobs[id].status = "finished"

\* C10: Get status and List change no job record and no queue content, and
\* a Get-status read that follows a read of the same job returns the same
\* payload.
C10_ReadsArePure ==
    [][ response'.route \in {"get", "list"} =>
          /\ jobs' = jobs
          /\ queue' = queue
          /\ (response.route = "get" /\ response'.route = "get"
                /\ response'.id = response.id) => response'.body = response.body
      ]_vars

C10_Witness ==
    /\ GetOk
    /\ response.body.d.status = "finished"
    /\ response.body.d.result # PyNone
    /\ queue # << >>

FailedBy(d) ==
    \E id \in DOMAIN executed : executed[id].by = d /\ jobs[id].status = "failed"
Queued(id) == id \in DOMAIN jobs /\ jobs[id].status = "queued"
Killed(d) == dispatcher[d].pc = "dead"

\* C9: the step that marks a job failed leaves its dispatcher in the loop,
\* ready for the next job, and touches no other job, the queue or another
\* dispatcher; and once a dispatcher has failed a job, every queued job is
\* eventually executed to a terminal status unless that dispatcher, or the
\* one that claimed the job, is killed from outside.
C9_FailureKeepsLoopAlive ==
    /\ [][ \A id \in DOMAIN jobs :
             (jobs[id].status = "started" /\ jobs'[id].status = "failed") =>
                /\ \E d \in Dispatchers :
                      /\ dispatcher[d] = [pc |-> "busy", job |-> id]
                      /\ dispatcher'[d] = [pc |-> "idle", job |-> NoJob]
                      /\ \A o \in Dispatchers \ {d} : dispatcher'[o] = dispatcher[o]
                /\ \A o \in DOMAIN jobs \ {id} : jobs'[o] = jobs[o]
                /\ queue' = queue
         ]_vars
    /\ \A d \in Dispatchers, id \in 1..MaxJobs :
          (FailedBy(d) /\ Queued(id)) ~>
              \/ id \in DOMAIN jobs /\ jobs[id].status \in Terminal
              \/ Killed(d)
              \/ \E o \in Dispatchers : Killed(o) /\ dispatcher[o].job = id

C9_Witness ==
    \E d \in Dispatchers, a, b \in DOMAIN executed :
        /\ a < b
        /\ executed[a].by = d /\ executed[b].by = d
        /\ jobs[a].status = "failed"
        /\ jobs[b].status = "finished"

ListOk == response.route = "list" /\ response.code = 200
Listed == {response.body.items[i].d.id : i \in 1..Len(response.body.items)}

\* C11: a List response carries one projection with id, status, created_at
\* and enqueued_at for every job of the store, whatever its status, so every
\* id a Get-status read would find is in the listing.
C11_ListShowsEveryKnownJob ==
    ListOk =>
        /\ \A i \in 1..Len(response.body.items) :
              DOMAIN response.body.items[i].d =
                  {"id", "status", "created_at", "enqueued_at"}
        /\ \A id \in DOMAIN jobs : jobs[id].id \in Listed
        /\ Len(response.body.items) = Cardinality(DOMAIN jobs)

Issued == {issued[i] : i \in 1..Len(issued)}
RecordFields == {"id", "status", "created_at", "enqueued_at", "started_at",
                 "ended_at", "result", "exc_info"}

C12_WitnessNotFound ==
    /\ response.route = "get"
    /\ response.code = 404
    /\ Issued # {}

\* C13: for every job, result is present exactly when the status is finished
\* and the error exactly when it is failed, never both, and neither while the
\* job is queued or started; a Get-status payload shows the same.
C13_ResultIffFinished ==
    /\ \A id \in DOMAIN jobs :
          /\ jobs[id].result # PyNone <=> jobs[id].status = "finished"
          /\ jobs[id].exc_info # PyNone <=> jobs[id].status = "failed"
          /\ ~(jobs[id].result # PyNone /\ jobs[id].exc_info # PyNone)
    /\ GetOk =>
          /\ response.body.d.result # PyNone <=> response.body.d.status = "finished"
          /\ response.body.d.exc_info # PyNone <=> response.body.d.status = "failed"

\* the part of C13 that the code keeps: the same, for every job but the one
\* whose worker exited 0 printing the JSON value null
C13_ExceptNullOutput ==
    \A id \in DOMAIN jobs :
        (id \in DOMAIN executed /\ ExitedWith(executed[id].env, "0")
            /\ executed[id].env.stdout = "null")
        \/ /\ jobs[id].result # PyNone <=> jobs[id].status = "finished"
           /\ jobs[id].exc_info # PyNone <=> jobs[id].status = "failed"

\* C14: a worker that exits 0 with standard output that does not parse as
\* JSON gives a finished job, never a failed one, whose result is the
\* envelope {success: true, message, output, stderr} with output and stderr
\* the texts the worker wrote, unchanged.
C14_UnparsableOutputStillSucceeds ==
    \A id \in DOMAIN executed :
        LET e == executed[id].env
        IN (ExitedWith(e, "0") /\ ~Parses(e.stdout)) =>
              /\ jobs[id].status = "finished"
              /\ jobs[id].exc_info = PyNone
              /\ jobs[id].result.t = "dict"
              /\ DOMAIN jobs[id].result.d = {"success", "message", "output", "stderr"}
              /\ jobs[id].result.d.success = PyBool(TRUE)
              /\ jobs[id].result.d.output = PyStr(e.stdout)
              /\ jobs[id].result.d.stderr = PyStr(e.stderr)

C14_Witness ==
    \E id \in DOMAIN executed :
        /\ ExitedWith(executed[id].env, "0")
        /\ executed[id].env.stdout = "not json"
        /\ jobs[id].status = "finished"
        /\ jobs[id].result.d.output = PyStr("not json")
        /\ jobs[id].result.d.stderr = PyStr("warn")

Holder(id) == {d \in Dispatchers : dispatcher[d].job = id}

\* C15: with several dispatchers on one queue, every job is claimed at most
\* once and by one dispatcher, no two dispatchers hold the same job, and the
\* step that writes a job's terminal status is taken by the dispatcher that
\* claimed it.
C15_OneClaimPerJob ==
    /\ [](\A id \in DOMAIN jobs :
             /\ Cardinality(Holder(id)) <= 1
             /\ id \in DOMAIN claimed <=> jobs[id].status # "queued"
             /\ id \in DOMAIN claimed => Len(claimed[id]) = 1
             /\ \A d \in Holder(id) : claimed[id] = <<d>>
             /\ id \in DOMAIN executed => executed[id].by = claimed[id][1])
    /\ [][ \A id \in DOMAIN jobs :
             (jobs[id].status = "started" /\ jobs'[id] # jobs[id]) =>
                /\ dispatcher[claimed[id][1]] = [pc |-> "busy", job |-> id]
                /\ dispatcher'[claimed[id][1]] # dispatcher[claimed[id][1]]
                /\ \A o \in Dispatchers \ {claimed[id][1]} :
                      dispatcher'[o] = dispatcher[o]
         ]_vars

C15_Witness ==
    \E a \in DOMAIN executed, d \in Dispatchers :
        /\ dispatcher[d].pc = "busy"
        /\ dispatcher[d].job # a
        /\ executed[a].by # d
        /\ claimed[dispatcher[d].job] = <<d>>
        /\ jobs[a].status \in Terminal

OnQueue(id) == \E i \in 1..Len(queue) : queue[i] = id

\* C16: the bridge is called at most once per job and a call spawns at most
\* one worker process, none when the executor is unavailable; a job that
\* was executed, failed ones included, is never on the queue again, never
\* held by a dispatcher again, and neither its record nor the account of
\* its one execution ever changes.
C16_AtMostOnceExecution ==
    /\ [](\A id \in DOMAIN executed :
             /\ executed[id].out.spawned = IF Ran(executed[id].env) THEN 1 ELSE 0
             /\ jobs[id].status \in Terminal
             /\ ~OnQueue(id)
             /\ Holder(id) = {}
             /\ Len(claimed[id]) = 1)
    /\ [][ /\ \A id \in DOMAIN executed :
                /\ id \in DOMAIN executed'
                /\ executed'[id] = executed[id]
                /\ jobs'[id] = jobs[id]
           /\ \A id \in DOMAIN jobs :
                jobs[id].status = "failed" =>
                    /\ jobs'[id].status = "failed"
                    /\ ~OnQueue(id)'
                    /\ Holder(id)' = {}
         ]_vars

C16_Witness ==
    \E a, b \in DOMAIN executed :
        /\ jobs[a].status = "failed"
        /\ Ran(executed[a].env)
        /\ executed[a].out.spawned = 1
        /\ jobs[a].ended_at.at < jobs[b].started_at.at
        /\ executed[b].by = executed[a].by
        /\ Unavailable(executed[b].env)
        /\ executed[b].out.spawned = 0

Started(id) == id \in DOMAIN jobs /\ jobs[id].status = "started"
Finished(id) == id \in DOMAIN jobs /\ jobs[id].status \in Terminal

\* C17: with dispatchers that keep taking steps, every queued job is
\* eventually claimed unless every dispatcher has been killed, every claimed
\* job eventually is finished or failed unless the dispatcher holding it is
\* killed, and every bridge call ends: a busy dispatcher eventually is idle
\* again or has been killed.
C17_EveryJobTerminates ==
    /\ \A id \in 1..MaxJobs :
          /\ Queued(id) ~> (~Queued(id) \/ \A d \in Dispatchers : Killed(d))
          /\ Started(id) ~> (Finished(id) \/ \E d \in Holder(id) : Killed(d))
    /\ \A d \in Dispatchers :
          (dispatcher[d].pc = "busy") ~> (dispatcher[d].pc # "busy")

C17_Witness ==
    /\ uuids = MaxJobs
    /\ \A id \in DOMAIN jobs : Finished(id)
    /\ \E id \in DOMAIN executed :
          /\ Hung(executed[id].env)
          /\ executed[id].out.killed
          /\ jobs[id].status = "failed"
    /\ \A d \in Dispatchers : dispatcher[d].pc = "idle"

Abandoned(id) == \E d \in Holder(id) : Killed(d)

\* C18: a job held by a dispatcher that was killed between the claim and the
\* terminal write keeps its record, status started, in every later state: it
\* is not on the queue, no other dispatcher holds it, and it is never
\* finished or failed. This is a statement about Crash as modelled here: what
\* the queue library does with such a job is not in the source.
C18_AbandonedStaysStarted ==
    /\ [](\A id \in DOMAIN jobs :
             Abandoned(id) =>
                /\ jobs[id].status = "started"
                /\ jobs[id].ended_at = PyNone
                /\ ~OnQueue(id)
                /\ Cardinality(Holder(id)) = 1
                /\ id \notin DOMAIN executed)
    /\ [][ \A id \in DOMAIN jobs :
             Abandoned(id) => Abandoned(id)' /\ jobs'[id] = jobs[id] ]_vars

C18_Witness ==
    \E id \in DOMAIN jobs, other \in DOMAIN executed :
        /\ Abandoned(id)
        /\ id < other
        /\ jobs[other].status = "finished"
        /\ GetOk /\ response.id = id /\ response.body.d.status = "started"

\* the text of a payload document, written out field by field
ParamsDocument(params) ==
    IF params = EmptyDict THEN <<"{", "}">>
    ELSE <<"{", "preset", ":", "\"", params.d["preset"].s, "\"", ",", "}">>

Document(args) ==
    <<"{", "task", ":", "\"", args.d["task"].s, "\"", ",",
      "input_path", ":", "\"", args.d["input_path"].s, "\"", ",",
      "output_path", ":", "\"", args.d["output_path"].s, "\"", ",",
      "params", ":">> \o ParamsDocument(args.d["params"]) \o <<",", "}">>

\* C19: the payload stored for an accepted submission has the submitted
\* task, input_path and output_path and the submitted params, or the empty
\* mapping when params was omitted, and no other field; it never changes
\* afterwards; and a worker process is started with the binary path and one
\* argument, the JSON document of that payload. A task name outside the
\* catalog is accepted and executed like any other.
C19_PayloadReachesWorkerUnchanged ==
    /\ [](SubmitOk =>
            LET args == jobs[response.body.d.job_id].args
                data == response.data
            IN /\ DOMAIN args.d = AllFields
               /\ \A k \in RequiredFields : args.d[k] = data.d[k]
               /\ args.d["params"] = IF "params" \in DOMAIN data.d
                                     THEN data.d["params"] ELSE EmptyDict
               /\ response.body.d.payload = args)
    /\ [](\A id \in DOMAIN executed :
            IF Ran(executed[id].env)
            THEN executed[id].out.argv = <<RUST_WORKER_PATH, Document(jobs[id].args)>>
            ELSE executed[id].out.argv = << >>)
    /\ [][\A id \in DOMAIN jobs : jobs'[id].args = jobs[id].args]_vars

C19_Witness ==
    \E a, b \in DOMAIN executed :
        /\ Ran(executed[a].env) /\ Ran(executed[b].env)
        /\ jobs[a].args.d["task"] = PyStr("no_such_task")
        /\ jobs[a].args.d["params"] = EmptyDict
        /\ jobs[b].args.d["params"] = PyDict([preset |-> PyStr("fast")])
        /\ Len(executed[a].out.argv) = 2
        /\ executed[b].out.argv[2] = Document(jobs[b].args)

Present(x) == x # PyNone

====
